---------------------------- MODULE Spec2Model ----------------------------
(***************************************************************************)
(* A model of the Burp REST Bridge client (burp_client.py) and of its MCP  *)
(* tool layer (burp_mcp.py).                                               *)
(*                                                                         *)
(* Text is a sequence of one-character strings, so that the string         *)
(* functions of the code (replace, partition, split, strip, lower and the  *)
(* formatting of numbers) are computed character by character.  A Python   *)
(* dict is a sequence of <<key, value>> pairs with distinct keys, in       *)
(* insertion order.                                                        *)
(***************************************************************************)
EXTENDS Integers, Sequences, FiniteSets, TLC

(***************************************************************************)
(* Characters and Python's str methods.                                    *)
(***************************************************************************)
LF == "\n"
CR == "\r"
SP == " "

\* Python's None; no text holds this element, every text element being one character.
None == <<"None">>

\* str.isspace for the ASCII range: what str.strip() removes.
Whitespace == {" ", "\t", "\n", "\r", "\f"}

UpperChars == <<"A","B","C","D","E","F","G","H","I","J","K","L","M",
                "N","O","P","Q","R","S","T","U","V","W","X","Y","Z">>
LowerChars == <<"a","b","c","d","e","f","g","h","i","j","k","l","m",
                "n","o","p","q","r","s","t","u","v","w","x","y","z">>

UpperSet == { UpperChars[i] : i \in 1..Len(UpperChars) }
LowerSet == { LowerChars[i] : i \in 1..Len(LowerChars) }
LowerOf == [c \in UpperSet |-> LowerChars[CHOOSE i \in 1..Len(UpperChars) : UpperChars[i] = c]]
UpperOf == [c \in LowerSet |-> UpperChars[CHOOSE i \in 1..Len(LowerChars) : LowerChars[i] = c]]

LowerChar(c) == IF c \in UpperSet THEN LowerOf[c] ELSE c

\* str.lower()
str_lower(s) == [i \in 1..Len(s) |-> LowerChar(s[i])]

UpperChar(c) == IF c \in LowerSet THEN UpperOf[c] ELSE c

\* str.upper()
str_upper(s) == [i \in 1..Len(s) |-> UpperChar(s[i])]

\* s[i:].startswith(p), positions counted from 1
StartsWithAt(s, i, p) ==
    /\ i + Len(p) - 1 <= Len(s)
    /\ \A j \in 1..Len(p) : s[i + j - 1] = p[j]

\* str.startswith(p)
str_startswith(s, p) == StartsWithAt(s, 1, p)

\* the first position k >= i where p occurs in s; 0 when there is none
FindFrom(s, p, i) ==
    LET hits == { k \in i..Len(s) : StartsWithAt(s, k, p) }
    IN  IF hits = {} THEN 0 ELSE CHOOSE k \in hits : \A j \in hits : k <= j

\* str.find(p), counted from 1; 0 when p does not occur
str_find(s, p) == FindFrom(s, p, 1)

\* p in s
str_contains(s, p) == p = <<>> \/ str_find(s, p) > 0

RECURSIVE ReplaceFrom(_, _, _, _)
\* the scan of str.replace for a non-empty old: the next occurrence at or after
\* i is replaced and the scan goes on behind it
ReplaceFrom(s, old, new, i) ==
    LET k == FindFrom(s, old, i)
    IN  IF k = 0 THEN SubSeq(s, i, Len(s))
        ELSE SubSeq(s, i, k - 1) \o new \o ReplaceFrom(s, old, new, k + Len(old))

\* str.replace with an empty old: new before every character and at the end
Interleave(s, new) ==
    LET m == Len(new)
        n == Len(s)
    IN  [j \in 1..((n + 1) * m + n) |->
            LET b == (j - 1) \div (m + 1)
                r == (j - 1) % (m + 1)
            IN  IF b < n /\ r = m THEN s[b + 1] ELSE new[r + 1]]

\* str.replace(old, new): every non-overlapping occurrence, left to right
str_replace(s, old, new) ==
    IF old = <<>> THEN Interleave(s, new) ELSE ReplaceFrom(s, old, new, 1)

\* str.partition(sep): the text before the first sep and the text after it
\* (the whole text and an empty tail when sep does not occur).
str_partition(s, sep) ==
    LET k == str_find(s, sep)
    IN  IF k = 0 THEN [head |-> s, tail |-> <<>>]
        ELSE [head |-> SubSeq(s, 1, k - 1),
              tail |-> SubSeq(s, k + Len(sep), Len(s))]

RECURSIVE SplitFrom(_, _, _)
SplitFrom(s, c, i) ==
    LET rest == SubSeq(s, i, Len(s))
        k    == str_find(rest, <<c>>)
    IN  IF k = 0 THEN <<rest>>
        ELSE <<SubSeq(rest, 1, k - 1)>> \o SplitFrom(s, c, i + k)

\* str.split(c) for a one-character separator: never an empty list.
str_split(s, c) == SplitFrom(s, c, 1)

RECURSIVE SkipLeft(_, _)
\* the first position at or after i that holds no whitespace
SkipLeft(s, i) ==
    IF i <= Len(s) /\ s[i] \in Whitespace THEN SkipLeft(s, i + 1) ELSE i

RECURSIVE SkipRight(_, _)
\* the last position at or before i that holds no whitespace
SkipRight(s, i) ==
    IF i >= 1 /\ s[i] \in Whitespace THEN SkipRight(s, i - 1) ELSE i

\* str.strip()
str_strip(s) == SubSeq(s, SkipLeft(s, 1), SkipRight(s, Len(s)))

Digits == <<"0","1","2","3","4","5","6","7","8","9">>

RECURSIVE str_int(_)
\* str(n) of a non-negative int: its decimal digits
str_int(n) ==
    IF n < 10 THEN <<Digits[n + 1]>>
    ELSE str_int(n \div 10) \o <<Digits[(n % 10) + 1]>>

(***************************************************************************)
(* Python's dict, as a sequence of <<key, value>> pairs.                   *)
(***************************************************************************)
DictKeys(d) == [i \in 1..Len(d) |-> d[i][1]]

DictHas(d, k) == \E i \in 1..Len(d) : d[i][1] = k

DictGet(d, k) == d[CHOOSE i \in 1..Len(d) : d[i][1] = k][2]

\* d[k] = v: an existing key keeps its place, a new key goes last.
DictSet(d, k, v) ==
    IF DictHas(d, k)
    THEN [i \in 1..Len(d) |-> IF d[i][1] = k THEN <<k, v>> ELSE d[i]]
    ELSE Append(d, <<k, v>>)

RemoveAt(d, i) == SubSeq(d, 1, i - 1) \o SubSeq(d, i + 1, Len(d))

RECURSIVE DictUpdateFrom(_, _, _)
DictUpdateFrom(d, e, i) ==
    IF i > Len(e) THEN d
    ELSE DictUpdateFrom(DictSet(d, e[i][1], e[i][2]), e, i + 1)

\* d.update(e)
DictUpdate(d, e) == DictUpdateFrom(d, e, 1)

(***************************************************************************)
(* _parse_http_request and _pop_header.                                    *)
(***************************************************************************)
GET == <<"G","E","T">>

RECURSIVE HeaderLines(_, _, _)
\* the loop over lines[1:]: a line with a colon sets headers[name] = value
HeaderLines(lines, i, headers) ==
    IF i > Len(lines) THEN headers
    ELSE IF str_contains(lines[i], <<":">>)
         THEN LET kv == str_partition(lines[i], <<":">>)
              IN  HeaderLines(lines, i + 1,
                              DictSet(headers, str_strip(kv.head), str_strip(kv.tail)))
         ELSE HeaderLines(lines, i + 1, headers)

RequestLineMethod(parts) == IF parts # <<>> THEN parts[1] ELSE GET

RequestLinePath(parts) == IF Len(parts) > 1 THEN parts[2] ELSE <<"/">>

parse_http_request(text) ==
    LET t     == str_replace(str_replace(text, <<CR, LF>>, <<LF>>), <<CR>>, <<LF>>)
        p     == str_partition(t, <<LF, LF>>)
        lines == str_split(p.head, LF)
        parts == str_split(str_strip(lines[1]), SP)
    IN  [method  |-> RequestLineMethod(parts),
         path    |-> RequestLinePath(parts),
         headers |-> HeaderLines(lines, 2, <<>>),
         body    |-> str_strip(p.tail)]

\* the index of the first key equal to name without regard to case, 0 if none
HeaderIndex(headers, name) ==
    LET n    == str_lower(name)
        hits == { i \in 1..Len(headers) : str_lower(headers[i][1]) = n }
    IN  IF hits = {} THEN 0 ELSE CHOOSE i \in hits : \A j \in hits : i <= j

\* _pop_header: the value popped (None when no key matches) and the dict left
pop_header(headers, name) ==
    LET i == HeaderIndex(headers, name)
    IN  IF i = 0 THEN [value |-> None, headers |-> headers]
        ELSE [value |-> headers[i][2], headers |-> RemoveAt(headers, i)]

(***************************************************************************)
(* Text constants of burp_client.py.                                       *)
(***************************************************************************)
HOST == <<"h","o","s","t">>
CONTENT_LENGTH == <<"c","o","n","t","e","n","t","-","l","e","n","g","t","h">>
TRANSFER_ENCODING == <<"t","r","a","n","s","f","e","r","-","e","n","c","o","d","i","n","g">>
X_BURP_MCP == <<"X","-","B","u","r","p","-","M","C","P">>
TAG_REQUEST == <<"r","e","q","u","e","s","t">>
TAG_REPEAT == <<"r","e","p","e","a","t",":">>
HTTPS == <<"h","t","t","p","s">>
HTTP == <<"h","t","t","p">>
SCHEME_SEP == <<":","/","/">>
OMIT_HEAD == <<"\n","[",".",".","."," ">>
OMIT_TAIL == <<" ","c","h","a","r","s"," ","o","m","i","t","t","e","d","]">>

(***************************************************************************)
(* BurpClient.request: the headers sent, the request handed to the         *)
(* requests library and the result built from the response.                *)
(***************************************************************************)
\* dict(headers or {}), then the provenance header unless the exact key is there
SendHeaders(headers) ==
    IF DictHas(headers, X_BURP_MCP) THEN headers
    ELSE DictSet(headers, X_BURP_MCP, TAG_REQUEST)

\* the arguments of req_lib.request; body.encode() leaves ASCII text as it is
\* and None stays None.  No timeout is passed.
RequestsCall(method, url, headers, body) ==
    [method  |-> str_upper(method),
     url     |-> url,
     headers |-> SendHeaders(headers),
     data    |-> body]

\* a variant whose marker states the length of the whole body
TruncateBody_WholeLength(resp_body, max_response_body) ==
    IF max_response_body > 0 /\ Len(resp_body) > max_response_body
    THEN SubSeq(resp_body, 1, max_response_body)
            \o OMIT_HEAD \o str_int(Len(resp_body)) \o OMIT_TAIL
    ELSE resp_body

\* resp_body[:max_response_body] + "\n[... N chars omitted]"
TruncateBody(resp_body, max_response_body) ==
    IF max_response_body > 0 /\ Len(resp_body) > max_response_body
    THEN SubSeq(resp_body, 1, max_response_body)
            \o OMIT_HEAD \o str_int(Len(resp_body) - max_response_body) \o OMIT_TAIL
    ELSE resp_body

\* the dict request() returns; sent holds url and method.upper()
RequestResult(resp, sent, max_response_body) ==
    [status_code |-> resp.status_code,
     headers     |-> resp.headers,
     body        |-> TruncateBody(resp.text, max_response_body),
     url         |-> sent.url,
     method      |-> sent.method]

\* result["item_id"] = item_id
RepeatResult(result, item_id) == [item_id |-> item_id] @@ result

(***************************************************************************)
(* BurpClient.repeat, step by step.                                        *)
(***************************************************************************)
\* dict.get(key, default): a missing key is None here
ItemGet(v, default) == IF v = None THEN default ELSE v

\* a variant that tests only for the missing key
NoRequestText_MissingOnly(item) == item.request_text = None

\* "if not request_text": the key is missing or its text is empty
NoRequestText(item) == ItemGet(item.request_text, <<>>) = <<>>

RECURSIVE ReplacementsFrom(_, _, _)
ReplacementsFrom(text, replacements, i) ==
    IF i > Len(replacements) THEN text
    ELSE ReplacementsFrom(str_replace(text, replacements[i][1], replacements[i][2]),
                          replacements, i + 1)

\* a variant that applies the pairs last to first
ApplyReplacements_LastFirst(text, replacements) ==
    ReplacementsFrom(text, [i \in 1..Len(replacements) |->
                               replacements[Len(replacements) + 1 - i]], 1)

\* for old, new in replacements.items(): request_text = request_text.replace(old, new)
ApplyReplacements(text, replacements) == ReplacementsFrom(text, replacements, 1)

\* scheme from the captured item's url
ItemScheme(item) ==
    IF str_startswith(ItemGet(item.url, <<>>), HTTPS) THEN HTTPS ELSE HTTP

\* _pop_header(headers, "host") or item.get("host", "")
RepeatHost(popped, item) ==
    IF popped # None /\ popped # <<>> THEN popped ELSE ItemGet(item.host, <<>>)

\* for auto in ("content-length", "transfer-encoding"): _pop_header(headers, auto)
DropAutoHeaders(headers) ==
    pop_header(pop_header(headers, CONTENT_LENGTH).headers, TRANSFER_ENCODING).headers

\* if add_headers: headers.update(add_headers)
AddHeaders(headers, add_headers) ==
    IF add_headers # <<>> THEN DictUpdate(headers, add_headers) ELSE headers

\* a variant that takes the replacement only when it is non-empty
ReplaceBody_IfNonEmpty(req_body, body) ==
    IF body # None /\ body # <<>> THEN body ELSE req_body

\* if body is not None: req_body = body
ReplaceBody(req_body, body) == IF body # None THEN body ELSE req_body

\* a variant that keeps a provenance header already there
TagRepeat_SetDefault(headers, item_id) ==
    IF DictHas(headers, X_BURP_MCP) THEN headers
    ELSE DictSet(headers, X_BURP_MCP, TAG_REPEAT \o str_int(item_id))

\* headers["X-Burp-MCP"] = f"repeat:{item_id}"
TagRepeat(headers, item_id) == DictSet(headers, X_BURP_MCP, TAG_REPEAT \o str_int(item_id))

\* body=req_body or None
BodyOrNone(req_body) == IF req_body = <<>> THEN None ELSE req_body

\* the arguments repeat() passes to self.request()
RepeatRequest(item, parsed, a) ==
    LET popped == pop_header(parsed.headers, HOST)
        host   == RepeatHost(popped.value, item)
        hdrs   == TagRepeat(AddHeaders(DropAutoHeaders(popped.headers), a.add_headers),
                            a.item_id)
    IN  [method  |-> parsed.method,
         url     |-> ItemScheme(item) \o SCHEME_SEP \o host \o parsed.path,
         headers |-> hdrs,
         body    |-> BodyOrNone(ReplaceBody(parsed.body, a.body))]

(***************************************************************************)
(* BurpClient._get, _post and the methods built on them.  A parameter      *)
(* value is None, a str or an int.                                         *)
(***************************************************************************)
PATH_HEALTH == <<"/","h","e","a","l","t","h">>
PATH_DOCS == <<"/">>
PATH_HOSTS == <<"/","p","r","o","x","y","/","h","o","s","t","s">>
PATH_HISTORY == <<"/","p","r","o","x","y","/","h","i","s","t","o","r","y">>
PATH_ITEM == <<"/","p","r","o","x","y","/","h","i","s","t","o","r","y","/">>
PATH_REPEATER_HISTORY == <<"/","r","e","p","e","a","t","e","r","/","h","i","s","t","o","r","y">>
PATH_REPEATER_LATEST == <<"/","r","e","p","e","a","t","e","r","/","l","a","t","e","s","t">>
PATH_REPEATER == <<"/","r","e","p","e","a","t","e","r">>
PATH_SCOPE == <<"/","s","c","o","p","e">>
TRUE_TEXT == <<"t","r","u","e">>

PNone == [t |-> "none"]
PStr(x) == [t |-> "str", v |-> x]
PInt(n) == [t |-> "int", v |-> n]
PBool(b) == [t |-> "bool", v |-> b]

\* x if x is a str, None otherwise, as a parameter value
POpt(x) == IF x = None THEN PNone ELSE PStr(x)

\* str(v)
ParamText(v) == IF v.t = "int" THEN str_int(v.v) ELSE v.v

\* a variant that keeps the values that are true: it drops the int 0 as well
FilterParams_Truthy(params) ==
    LET kept == SelectSeq(params, LAMBDA kv :
                        /\ kv[2].t # "none"
                        /\ ~(kv[2].t = "str" /\ kv[2].v = <<>>)
                        /\ ~(kv[2].t = "int" /\ kv[2].v = 0))
    IN  [i \in 1..Len(kept) |-> <<kept[i][1], ParamText(kept[i][2])>>]

\* {k: str(v) for k, v in params.items() if v is not None and v != ""}
FilterParams(params) ==
    LET kept == SelectSeq(params, LAMBDA kv :
                        kv[2].t # "none" /\ ~(kv[2].t = "str" /\ kv[2].v = <<>>))
    IN  [i \in 1..Len(kept) |-> <<kept[i][1], ParamText(kept[i][2])>>]

\* the request _get makes: urlopen(url, timeout=self.timeout)
GetRequest(path, params) ==
    [verb |-> "GET", path |-> path, query |-> FilterParams(params), body |-> <<>>]

\* the request _post makes: the JSON body, urlopen(req, timeout=self.timeout)
PostRequest(path, body) ==
    [verb |-> "POST", path |-> path, query |-> <<>>, body |-> body]

\* max_body if max_body > 0 else None
MaxBodyParam(max_body) == IF max_body > 0 THEN PInt(max_body) ELSE PNone

\* the params dict of history()
HistoryParams(a) ==
    << <<"host", POpt(a.host)>>, <<"method", POpt(a.method)>>,
       <<"status", POpt(a.status)>>, <<"search", POpt(a.search)>>,
       <<"search_in", POpt(a.search_in)>>, <<"tool", POpt(a.tool)>>,
       <<"ext_exclude", POpt(a.ext_exclude)>>, <<"mime", POpt(a.mime)>>,
       <<"order", POpt(a.order)>>,
       <<"limit", PInt(a.limit)>>, <<"offset", PInt(a.offset)>>,
       <<"fields", POpt(a.fields)>>,
       <<"max_body", MaxBodyParam(a.max_body)>>,
       <<"mcp", IF a.mcp_only THEN PStr(TRUE_TEXT) ELSE PNone>> >>

\* the params dict of repeater_history()
RepeaterHistoryParams(a) ==
    << <<"host", POpt(a.host)>>, <<"method", POpt(a.method)>>,
       <<"status", POpt(a.status)>>, <<"search", POpt(a.search)>>,
       <<"search_in", POpt(a.search_in)>>,
       <<"limit", PInt(a.limit)>>, <<"offset", PInt(a.offset)>>,
       <<"fields", POpt(a.fields)>> >>

\* a variant that tests the id for truth: the id 0 counts as no id
RepeaterInvalid_IdTruthy(a) ==
    (a.history_id.t = "none" \/ a.history_id.v = 0)
        /\ (a.request_b64 = None \/ a.request_b64 = <<>>)

\* send_to_repeater: neither an id nor a payload is a ValueError before any POST
RepeaterInvalid(a) ==
    a.history_id.t = "none" /\ (a.request_b64 = None \/ a.request_b64 = <<>>)

\* the JSON body send_to_repeater posts
RepeaterBody(a) ==
    LET base == IF a.history_id.t # "none"
                THEN << <<"history_id", a.history_id>> >>
                ELSE << <<"request", PStr(a.request_b64)>>,
                        <<"host", PStr(ItemGet(a.host, <<>>))>>,
                        <<"port", PInt(a.port)>>,
                        <<"https", PBool(a.https)>> >>
    IN  IF a.tab_name # None /\ a.tab_name # <<>>
        THEN Append(base, <<"tab_name", PStr(a.tab_name)>>)
        ELSE base

\* an exception, and a value returned
Raise(type, msg) == [kind |-> "raise", type |-> type, msg |-> msg]
Return(v) == [kind |-> "return", value |-> v]
Nothing == [kind |-> "none"]

\* _safe: a RuntimeError becomes {"error": str(e)}; anything else passes through
safe(o) ==
    IF o.kind = "raise" /\ o.type = "RuntimeError"
    THEN Return([error |-> o.msg])
    ELSE o

(***************************************************************************)
(* The calls explored: arguments, captured requests and responses.         *)
(***************************************************************************)
MaxHeaderLines == 2
MaxLimit == 2
MaxRespLen == 12

H_Host == <<"H","o","s","t">>
H_ContentLength == <<"C","o","n","t","e","n","t","-","L","e","n","g","t","h">>
H_TransferEncoding == <<"T","r","a","n","s","f","e","r","-","E","n","c","o","d","i","n","g">>
H_contenttype == <<"c","o","n","t","e","n","t","-","t","y","p","e">>
H_ContentType == <<"C","o","n","t","e","n","t","-","T","y","p","e">>
H_Accept == <<"A","c","c","e","p","t">>
POST == <<"P","O","S","T">>
PATH_LOGIN == <<"/","l","o","g","i","n">>
HTTP11 == <<"H","T","T","P","/","1",".","1">>
A_TEST == <<"a",".","t","e","s","t">>
B_TEST == <<"b",".","t","e","s","t">>
C_TEST == <<"c",".","t","e","s","t">>
URL_B == <<"h","t","t","p","s",":","/","/","b",".","t","e","s","t","/","x">>
URL_C == <<"h","t","t","p",":","/","/","c",".","t","e","s","t","/","x">>
USER_BOB == <<"u","s","e","r","=","b","o","b">>
USER_ALICE == <<"u","s","e","r","=","a","l","i","c","e">>
BOB == <<"b","o","b">>
EVE == <<"e","v","e">>
CHUNKED == <<"c","h","u","n","k","e","d">>
V_JSON == <<"j","s","o","n">>
V_TEXT == <<"t","e","x","t">>
RESP_CHARS == <<"a","b","c","d","e","f","g","h","i","j","k","l","m",
                "n","o","p","q","r","s","t","u","v","w","x","y","z">>

RECURSIVE Join(_, _)
\* sep.join(parts)
Join(parts, sep) ==
    IF parts = <<>> THEN <<>>
    ELSE IF Len(parts) = 1 THEN parts[1]
    ELSE parts[1] \o sep \o Join(Tail(parts), sep)

\* header lines a captured request may carry
HeaderCandidates ==
    { [name |-> H_Host,             value |-> A_TEST],
      [name |-> H_Host,             value |-> <<>>],
      [name |-> H_ContentLength,    value |-> <<"9">>],
      [name |-> CONTENT_LENGTH,     value |-> <<"8">>],
      [name |-> H_TransferEncoding, value |-> CHUNKED],
      [name |-> H_contenttype,      value |-> V_TEXT],
      [name |-> X_BURP_MCP,         value |-> EVE] }

\* header blocks: up to MaxHeaderLines different candidate lines, in any order
HeaderBlocks ==
    { h \in UNION { [1..n -> HeaderCandidates] : n \in 0..MaxHeaderLines } :
        \A i, j \in 1..Len(h) : i # j => h[i] # h[j] }

BaseBlock == << [name |-> H_Host, value |-> A_TEST],
                [name |-> H_ContentLength, value |-> <<"9">>] >>

\* a header block that repeats a list-valued header
RepeatedBlock == << [name |-> H_Host, value |-> A_TEST],
                    [name |-> H_Accept, value |-> V_TEXT],
                    [name |-> H_Accept, value |-> V_JSON] >>

\* request lines, as the tokens a single space separates
RequestLines ==
    { <<POST, PATH_LOGIN, HTTP11>>, <<<<"g","e","t">>, <<"/","a">>>>, <<GET>>, <<>> }

CapturedBodies == { <<>>, USER_BOB, <<SP>> \o USER_BOB \o <<LF>> }

LineEndings == { <<LF>>, <<CR, LF>> }

\* a captured request in pieces: every header block under one request line,
\* and every request line, line ending and body over one header block
Shapes ==
    { [line |-> <<POST, PATH_LOGIN, HTTP11>>, hdrs |-> h, eol |-> <<LF>>, body |-> USER_BOB] :
        h \in HeaderBlocks \cup { RepeatedBlock } }
    \cup
    { [line |-> l, hdrs |-> BaseBlock, eol |-> e, body |-> b] :
        l \in RequestLines, e \in LineEndings, b \in CapturedBodies }

\* the raw text of a captured request
Render(s) ==
    Join(<<Join(s.line, <<SP>>)>>
            \o [i \in 1..Len(s.hdrs) |-> s.hdrs[i].name \o <<":", SP>> \o s.hdrs[i].value],
         s.eol)
      \o s.eol \o s.eol \o s.body

\* texts with no blank line at all: blank, a plain request line, and one with
\* two spaces after the method
RawTexts == { <<SP>>, <<"G","E","T",SP,"/","a">>, <<"G","E","T",SP,SP,"/","a">> }

RequestTexts == { Render(s) : s \in Shapes } \cup RawTexts

\* the rest of a stored item: its url and host fields, present or not
ItemFields == { [url |-> URL_B, host |-> B_TEST], [url |-> None, host |-> None] }

ItemIds == { 7, 12 }

Replacements == { <<>>, << <<BOB, EVE>> >>, << <<A_TEST, C_TEST>> >> }

\* substitution specs of two pairs, the second matching what the first inserts,
\* in both orders
ChainedReplacements ==
    { << <<BOB, EVE>>, <<EVE, BOB>> >>, << <<EVE, BOB>>, <<BOB, EVE>> >> }

AddHeaderSets ==
    { <<>>,
      << <<H_ContentType, V_JSON>> >>,
      << <<H_ContentLength, <<"1">>>> >>,
      << <<H_Host, C_TEST>> >>,
      << <<X_BURP_MCP, BOB>> >> }

BodyReplacements == { None, <<>>, USER_ALICE }

\* responses of the forwarding endpoint: a body of each length around the
\* truncation limits explored, and one of the greatest length
Responses ==
    { [status_code |-> 200, headers |-> <<>>, text |-> SubSeq(RESP_CHARS, 1, n)] :
        n \in (0..(MaxLimit + 1)) \cup { MaxRespLen } }

\* items the store may hold: with a request text, with an empty one, without the field
StoredItems ==
    { [request_text |-> t, url |-> f.url, host |-> f.host] :
        t \in RequestTexts \cup { <<>>, None }, f \in ItemFields }

\* what kind of item the store answered with
ItemKind(it) ==
    IF it.request_text = None THEN "no_text_field"
    ELSE IF it.request_text = <<>> THEN "empty_text" ELSE "text"

\* calls of repeat(): every mutation spec on one item with no truncation,
\* every item id and truncation limit with an empty mutation spec, and the
\* chained substitutions alone
RepeatCalls ==
    { [item_id |-> 7, replacements |-> r, add_headers |-> h, body |-> b,
       max_response_body |-> 0] :
        r \in Replacements, h \in AddHeaderSets, b \in BodyReplacements }
    \cup
    { [item_id |-> id, replacements |-> <<>>, add_headers |-> <<>>, body |-> None,
       max_response_body |-> m] :
        id \in ItemIds, m \in 0..MaxLimit }
    \cup
    { [item_id |-> 7, replacements |-> r, add_headers |-> <<>>, body |-> None,
       max_response_body |-> 0] : r \in ChainedReplacements }

RequestCalls ==
    { [method |-> m, url |-> URL_C, headers |-> h, body |-> b, max_response_body |-> n] :
        m \in { POST, <<"g","e","t">> },
        h \in { <<>>, << <<X_BURP_MCP, BOB>> >>,
                << <<<<"x","-","b","u","r","p","-","m","c","p">>, BOB>> >>,
                << <<H_ContentType, V_JSON>> >> },
        b \in { None, USER_BOB },
        n \in 0..MaxLimit }

HistoryCalls ==
    { [host |-> h, method |-> None, status |-> st, search |-> None, search_in |-> None,
       tool |-> None, ext_exclude |-> None, mime |-> None, order |-> None,
       limit |-> 20, offset |-> o, fields |-> f, max_body |-> n, mcp_only |-> mo] :
        h \in { None, <<>>, A_TEST }, st \in { None, <<"4">> }, o \in { 0, 1 },
        f \in { None, <<"u","r","l">> }, n \in 0..MaxLimit, mo \in BOOLEAN }
    \cup
    { [host |-> A_TEST, method |-> POST, status |-> <<"4">>, search |-> BOB,
       search_in |-> EVE, tool |-> V_TEXT, ext_exclude |-> V_JSON, mime |-> CHUNKED,
       order |-> <<"a","s","c">>, limit |-> 100, offset |-> 10,
       fields |-> <<"u","r","l">>, max_body |-> MaxLimit, mcp_only |-> TRUE] }

RepeaterHistoryCalls ==
    { [host |-> h, method |-> None, status |-> None, search |-> None, search_in |-> None,
       limit |-> 100, offset |-> 0, fields |-> None] : h \in { None, A_TEST } }

RepeaterCalls ==
    { [history_id |-> id, request_b64 |-> r, host |-> h, port |-> 80, https |-> FALSE,
       tab_name |-> t] :
        id \in { PNone } \cup { PInt(i) : i \in { 0 } \cup ItemIds },
        r \in { None, <<>>, <<"U","E","9","T">> },
        h \in { None, A_TEST },
        t \in { None, <<"t","1">> } }

Vias == { "client", "mcp" }

(***************************************************************************)
(* One call of the client, from the caller's entry to its completion.      *)
(***************************************************************************)
VARIABLES
    pc,            \* "idle", "store" (waiting for the store), "proxy" (waiting
                   \* for the forwarding endpoint), "safe" (back in _safe), "done"
    op,            \* the client method called
    via,           \* "client": called directly; "mcp": through the tool of burp_mcp.py
    args,          \* the arguments of the running client method
    item,          \* repeat(): the item fetched
    parsed,        \* repeat(): the result of _parse_http_request
    store_req,     \* the request in flight to the store
    outbound,      \* the request in flight through the forwarding endpoint
    store_said,    \* what the store did: "nothing" yet, "json", "text", "empty_text",
                   \* "no_text_field", "http_error", "refused", "silent"
    proxy_said,    \* what the forwarding endpoint did: "nothing" yet, "response", "refused"
    response,      \* the response the forwarding endpoint gave
    outcome,       \* how the client method ended: Return(value) or Raise(type, msg)
    tool_outcome,  \* how the tool ended
    nFetch,        \* requests made to the store
    nSend          \* requests made through the forwarding endpoint

vars == <<pc, op, via, args, item, parsed, store_req, outbound, store_said, proxy_said,
          response, outcome, tool_outcome, nFetch, nSend>>

Init ==
    /\ pc = "idle" /\ op = "none" /\ via = "none"
    /\ args = Nothing /\ item = Nothing /\ parsed = Nothing
    /\ store_req = Nothing /\ outbound = Nothing
    /\ store_said = "nothing" /\ proxy_said = "nothing" /\ response = Nothing
    /\ outcome = Nothing /\ tool_outcome = Nothing
    /\ nFetch = 0 /\ nSend = 0

\* the tools of burp_mcp.py and the arguments they can pass
ToolOps == { "health", "hosts", "history", "get", "repeater_latest",
             "send_to_repeater", "repeat", "request", "scope" }

ToolCanPass(o, a) ==
    CASE o = "history" -> a.fields = None /\ a.max_body = 0 /\ a.ext_exclude # <<>>
      [] o = "send_to_repeater" ->
            a.history_id.t # "none" /\ a.request_b64 = None /\ a.host = None
      [] OTHER -> TRUE

Callable(o, v, a) == v = "mcp" => (o \in ToolOps /\ ToolCanPass(o, a))

\* the client method is entered
Enter(o, v, a) ==
    /\ pc = "idle"
    /\ Callable(o, v, a)
    /\ op' = o /\ via' = v

\* the client method is entered and goes on with its arguments
Begin(o, v, a) == Enter(o, v, a) /\ args' = a

\* _get or _post sends req to the store and waits
AskStore(req) ==
    /\ pc' = "store"
    /\ store_req' = req
    /\ nFetch' = nFetch + 1
    /\ UNCHANGED <<item, parsed, outbound, store_said, proxy_said, response, outcome,
                   tool_outcome, nSend>>

\* the client method ends with o: its frame is gone and nothing is in flight
Finish(v, o) ==
    /\ outcome' = o
    /\ pc' = IF v = "mcp" THEN "safe" ELSE "done"
    /\ args' = Nothing /\ item' = Nothing /\ parsed' = Nothing
    /\ store_req' = Nothing /\ outbound' = Nothing

CallHealth ==
    \E v \in Vias :
        Begin("health", v, Nothing) /\ AskStore(GetRequest(PATH_HEALTH, <<>>))

CallDocs ==
    Begin("docs", "client", Nothing) /\ AskStore(GetRequest(PATH_DOCS, <<>>))

CallHosts ==
    \E v \in Vias :
        Begin("hosts", v, Nothing) /\ AskStore(GetRequest(PATH_HOSTS, <<>>))

CallHistory ==
    \E v \in Vias, a \in HistoryCalls :
        Begin("history", v, a) /\ AskStore(GetRequest(PATH_HISTORY, HistoryParams(a)))

CallGet ==
    \E v \in Vias, id \in ItemIds, n \in 0..MaxLimit :
        /\ Begin("get", v, [item_id |-> id, max_body |-> n])
        /\ AskStore(GetRequest(PATH_ITEM \o str_int(id), <<<<"max_body", MaxBodyParam(n)>>>>))

CallRepeaterHistory ==
    \E a \in RepeaterHistoryCalls :
        /\ Begin("repeater_history", "client", a)
        /\ AskStore(GetRequest(PATH_REPEATER_HISTORY, RepeaterHistoryParams(a)))

CallRepeaterLatest ==
    \E v \in Vias, n \in 0..MaxLimit :
        /\ Begin("repeater_latest", v, [max_body |-> n])
        /\ AskStore(GetRequest(PATH_REPEATER_LATEST, <<<<"max_body", MaxBodyParam(n)>>>>))

CallScope ==
    \E v \in Vias, u \in { URL_B, <<>> } :
        /\ Begin("scope", v, [url |-> u])
        /\ AskStore(GetRequest(PATH_SCOPE, <<<<"url", PStr(u)>>>>))

CallSendToRepeater ==
    \E v \in Vias, a \in RepeaterCalls :
        /\ Enter("send_to_repeater", v, a)
        /\ IF RepeaterInvalid(a)
           THEN /\ Finish(v, Raise("ValueError", [text |-> "Provide either history_id or request_b64"]))
                /\ UNCHANGED <<store_said, proxy_said, response, tool_outcome, nFetch, nSend>>
           ELSE /\ args' = a
                /\ AskStore(PostRequest(PATH_REPEATER, RepeaterBody(a)))

\* repeat() starts with self.get(item_id, max_body=0)
CallRepeat ==
    \E v \in Vias, a \in RepeatCalls :
        /\ Begin("repeat", v, a)
        /\ AskStore(GetRequest(PATH_ITEM \o str_int(a.item_id),
                               <<<<"max_body", MaxBodyParam(0)>>>>))

\* request() hands the request to the requests library, which sends it through
\* the proxy; no timeout is given, so the call waits until the peer answers
Transmit(sent) ==
    /\ pc' = "proxy"
    /\ outbound' = sent
    /\ nSend' = nSend + 1

\* request(), when "import requests" fails
RequestsMissing == Raise("RuntimeError", [text |-> "pip install requests"])

CallRequest ==
    \E v \in Vias, a \in RequestCalls, installed \in BOOLEAN :
        /\ Enter("request", v, a)
        /\ IF installed
           THEN /\ args' = a
                /\ Transmit(RequestsCall(a.method, a.url, a.headers, a.body))
                /\ UNCHANGED <<item, parsed, store_req, outcome>>
           ELSE /\ Finish(v, RequestsMissing)
                /\ UNCHANGED nSend
        /\ UNCHANGED <<store_said, proxy_said, response, tool_outcome, nFetch>>

\* what the store answers to the methods that return the decoded reply
StoreReplies(o) ==
    IF o = "hosts" THEN { [has_hosts |-> TRUE, hosts |-> <<A_TEST, B_TEST>>],
                          [has_hosts |-> FALSE, hosts |-> <<>>] }
    ELSE IF o = "get" THEN StoredItems
    ELSE { [json |-> o] }

\* hosts() is _get(...).get("hosts", []); the others return the reply
ReplyValue(o, reply) ==
    IF o = "hosts" THEN (IF reply.has_hosts THEN reply.hosts ELSE <<>>) ELSE reply

\* the store answers 2xx and the method returns
StoreAnswers ==
    /\ pc = "store" /\ op # "repeat"
    /\ \E reply \in StoreReplies(op) :
          /\ Finish(via, Return(ReplyValue(op, reply)))
          /\ store_said' = "json"
    /\ UNCHANGED <<op, via, proxy_said, response, tool_outcome, nFetch, nSend>>

\* the store answers repeat()'s fetch: repeat() runs up to its call of request()
StoreAnswersItem ==
    /\ pc = "store" /\ op = "repeat"
    /\ \E it \in StoredItems, installed \in BOOLEAN :
          /\ store_said' = ItemKind(it)
          /\ IF NoRequestText(it)
             THEN /\ Finish(via, Raise("RuntimeError",
                                       [text |-> "No request text for item", id |-> args.item_id]))
                  /\ UNCHANGED nSend
             ELSE LET text == ApplyReplacements(it.request_text, args.replacements)
                      p    == parse_http_request(text)
                      r    == RepeatRequest(it, p, args)
                  IN  IF installed
                      THEN /\ Transmit(RequestsCall(r.method, r.url, r.headers, r.body))
                           /\ item' = it /\ parsed' = p /\ store_req' = Nothing
                           /\ UNCHANGED <<args, outcome>>
                      ELSE /\ Finish(via, RequestsMissing)
                           /\ UNCHANGED nSend
    /\ UNCHANGED <<op, via, proxy_said, response, tool_outcome, nFetch>>

\* the store answers non-2xx: HTTPError becomes RuntimeError("HTTP code: body")
StoreHttpError ==
    /\ pc = "store"
    /\ \E code \in { 404, 500 } :
          Finish(via, Raise("RuntimeError", [text |-> "HTTP", code |-> code]))
    /\ store_said' = "http_error"
    /\ UNCHANGED <<op, via, proxy_said, response, tool_outcome, nFetch, nSend>>

\* a variant that asks the store again, once, when the connection fails
StoreRefuses_Retry ==
    /\ pc = "store" /\ nFetch < 2
    /\ nFetch' = nFetch + 1
    /\ store_said' = "refused"
    /\ UNCHANGED <<pc, op, via, args, item, parsed, store_req, outbound, proxy_said,
                   response, outcome, tool_outcome, nSend>>

\* the connection fails: URLError becomes RuntimeError("Cannot connect ...")
StoreRefuses ==
    /\ pc = "store"
    /\ Finish(via, Raise("RuntimeError", [text |-> "Cannot connect to Burp REST Bridge"]))
    /\ store_said' = "refused"
    /\ UNCHANGED <<op, via, proxy_said, response, tool_outcome, nFetch, nSend>>

\* urlopen(..., timeout=self.timeout): the store has not answered in time; the
\* socket timeout is no URLError and passes through _get and _post as it is
UrlopenTimeout ==
    /\ pc = "store"
    /\ Finish(via, Raise("TimeoutError", [text |-> "timed out"]))
    /\ store_said' = "silent"
    /\ UNCHANGED <<op, via, proxy_said, response, tool_outcome, nFetch, nSend>>

\* the forwarding endpoint answers: request() builds its result, repeat() adds item_id
ProxyAnswers ==
    /\ pc = "proxy"
    /\ \E resp \in Responses :
          LET result == RequestResult(resp, outbound, args.max_response_body)
          IN  /\ response' = resp
              /\ Finish(via, Return(IF op = "repeat"
                                    THEN RepeatResult(result, args.item_id)
                                    ELSE result))
    /\ proxy_said' = "response"
    /\ UNCHANGED <<op, via, store_said, tool_outcome, nFetch, nSend>>

\* the forwarding endpoint cannot be reached: requests raises its ConnectionError,
\* an OSError, which request() and repeat() let through
ProxyRefuses ==
    /\ pc = "proxy"
    /\ Finish(via, Raise("ConnectionError", [text |-> "proxy unreachable"]))
    /\ proxy_said' = "refused"
    /\ UNCHANGED <<op, via, store_said, response, tool_outcome, nFetch, nSend>>

\* the tool returns what _safe makes of the client's outcome
SafeReturns ==
    /\ pc = "safe"
    /\ tool_outcome' = safe(outcome)
    /\ pc' = "done"
    /\ UNCHANGED <<op, via, args, item, parsed, store_req, outbound, store_said,
                   proxy_said, response, outcome, nFetch, nSend>>

Next ==
    \/ CallHealth \/ CallDocs \/ CallHosts \/ CallHistory \/ CallGet
    \/ CallRepeaterHistory \/ CallRepeaterLatest \/ CallScope
    \/ CallSendToRepeater \/ CallRequest \/ CallRepeat
    \/ StoreAnswers \/ StoreAnswersItem \/ StoreHttpError \/ StoreRefuses
    \/ UrlopenTimeout \/ ProxyAnswers \/ ProxyRefuses \/ SafeReturns

Spec == Init /\ [][Next]_vars

\* what the client does by itself happens: a timeout that is set fires, _safe returns.
\* Nothing makes a peer answer.
FairSpec == Spec /\ WF_vars(UrlopenTimeout) /\ WF_vars(SafeReturns)


(***************************************************************************)
(* Properties of repeat(): the request it hands to request().              *)
(***************************************************************************)
\* the entries of a header dict whose name is lname when lower-cased
HeadersNamed(headers, lname) ==
    SelectSeq(headers, LAMBDA kv : str_lower(kv[1]) = lname)

\* repeat() has called request() and the request is in flight
Repeating == pc = "proxy" /\ op = "repeat"

\* C1: in repeat(), an override whose name differs only in letter case from a
\* header of the parsed request replaces that entry: the outbound headers hold
\* exactly one header of that name, compared case-insensitively, and it carries
\* the override's value.
C1_OverrideReplacesCaseVariant ==
    Repeating =>
        \A i \in 1..Len(args.add_headers) :
            LET name  == args.add_headers[i][1]
                value == args.add_headers[i][2]
                same  == HeadersNamed(outbound.headers, str_lower(name))
            IN  (\E j \in 1..Len(parsed.headers) :
                    /\ parsed.headers[j][1] # name
                    /\ str_lower(parsed.headers[j][1]) = str_lower(name))
                => (Len(same) = 1 /\ same[1][2] = value)

\* the case C1 is about: such an override on such a request has been sent
C1_Case ==
    /\ Repeating
    /\ \E i \in 1..Len(args.add_headers), j \in 1..Len(parsed.headers) :
          /\ parsed.headers[j][1] # args.add_headers[i][1]
          /\ str_lower(parsed.headers[j][1]) = str_lower(args.add_headers[i][1])

\* C2: whatever the captured text and the mutation spec, the headers repeat()
\* hands to the transmission step hold no header named content-length or
\* transfer-encoding, compared case-insensitively.
C2_NoAutoHeadersOutbound ==
    Repeating =>
        /\ HeadersNamed(outbound.headers, CONTENT_LENGTH) = <<>>
        /\ HeadersNamed(outbound.headers, TRANSFER_ENCODING) = <<>>

\* the text of every shape, the shapes of every text, and the text of a
\* shape's request line and headers alone
RenderedShapes == [s \in Shapes |-> Render(s)]
ShapesOf == [t \in RequestTexts |-> { s \in Shapes : RenderedShapes[s] = t }]
RenderedHeads == [s \in Shapes |-> Render([s EXCEPT !.body = <<>>])]

\* the shape has a request line "METHOD /path ...", one Host header with a
\* value, and one Content-Length header
C3_Scenario(s) ==
    /\ Len(s.line) >= 2 /\ s.line[2] # <<>> /\ s.line[2][1] = "/"
    /\ Len(HeadersNamed([i \in 1..Len(s.hdrs) |-> <<s.hdrs[i].name, s.hdrs[i].value>>],
                        HOST)) = 1
    /\ \E i \in 1..Len(s.hdrs) : str_lower(s.hdrs[i].name) = HOST /\ s.hdrs[i].value # <<>>
    /\ Len(HeadersNamed([i \in 1..Len(s.hdrs) |-> <<s.hdrs[i].name, s.hdrs[i].value>>],
                        CONTENT_LENGTH)) = 1

\* the value of the shape's Host header
C3_HostOf(s) ==
    LET i == CHOOSE i \in 1..Len(s.hdrs) : str_lower(s.hdrs[i].name) = HOST
    IN  s.hdrs[i].value

\* the mutation spec replaces the body and leaves the request line, the Host
\* header and the automatic headers alone
C3_BodyReplacementOnly(s) ==
    /\ args.body # None
    /\ \A i \in 1..Len(args.replacements) :
          ~str_contains(RenderedHeads[s], args.replacements[i][1])
    /\ \A i \in 1..Len(args.add_headers) :
          str_lower(args.add_headers[i][1]) \notin { HOST, CONTENT_LENGTH, TRANSFER_ENCODING }

\* the body requests sends for data: None sends none
BodySent(data) == IF data = None THEN <<>> ELSE data

\* C3: repeat() with a full-body replacement on a captured request that has a
\* request line "METHOD /path ...", a Host header and a Content-Length header
\* sends a request whose URL names the Host header's host and the request
\* line's path, which has no Content-Length header, and whose body is exactly
\* the replacement text.
C3_BodyReplacementEndToEnd ==
    Repeating =>
        \A s \in ShapesOf[item.request_text] :
            (/\ C3_Scenario(s)
             /\ C3_BodyReplacementOnly(s))
            => /\ \E scheme \in { HTTP, HTTPS } :
                     outbound.url = scheme \o SCHEME_SEP \o C3_HostOf(s) \o s.line[2]
               /\ HeadersNamed(outbound.headers, CONTENT_LENGTH) = <<>>
               /\ BodySent(outbound.data) = args.body

\* the spec's scenario is sent: POST /login on a.test with Content-Length and
\* the body user=bob, replaced by user=alice
C3_Sent ==
    /\ Repeating
    /\ args.body = USER_ALICE
    /\ \E s \in ShapesOf[item.request_text] :
          /\ C3_Scenario(s) /\ C3_BodyReplacementOnly(s)
          /\ s.line = <<POST, PATH_LOGIN, HTTP11>> /\ s.body = USER_BOB
          /\ C3_HostOf(s) = A_TEST
    /\ outbound.data = USER_ALICE

(***************************************************************************)
(* Properties of request() and of the errors of repeat().                  *)
(***************************************************************************)
DigitChars == { Digits[i] : i \in 1..Len(Digits) }

RECURSIVE DecimalValue(_)
\* the number a sequence of decimal digits writes
DecimalValue(ds) ==
    IF ds = <<>> THEN 0
    ELSE 10 * DecimalValue(SubSeq(ds, 1, Len(ds) - 1))
            + (CHOOSE d \in 0..9 : Digits[d + 1] = ds[Len(ds)])

\* the number a text states: the value of the digits in it
NumberStated(text) == DecimalValue(SelectSeq(text, LAMBDA c : c \in DigitChars))

\* the response has arrived and request() returns in this step
ResponseArrives == pc = "proxy" /\ proxy_said' = "response"

\* C4: for a response body of length L and a truncation limit M, when M > 0
\* and L > M the body returned is the first M characters of the response
\* followed by a marker that states exactly L - M omitted characters; when
\* M = 0 or L <= M the body returned is the response body, with no marker.
C4_TruncationMarker ==
    [][ResponseArrives =>
          LET L    == Len(response'.text)
              M    == args.max_response_body
              body == outcome'.value.body
              mark == SubSeq(body, M + 1, Len(body))
          IN  /\ outcome'.kind = "return"
              /\ IF M > 0 /\ L > M
                 THEN /\ Len(body) > M
                      /\ SubSeq(body, 1, M) = SubSeq(response'.text, 1, M)
                      /\ \E c \in DigitChars : str_contains(mark, <<c>>)
                      /\ NumberStated(mark) = L - M
                 ELSE body = response'.text]_vars

\* a body was truncated: the call returned a body that is not the response's,
\* of a response at least ten characters longer than the limit
C4_Truncated ==
    /\ pc \in { "safe", "done" } /\ proxy_said = "response"
    /\ outcome.kind = "return"
    /\ outcome.value.body # response.text
    /\ Len(response.text) >= MaxLimit + 10

\* the store answered repeat()'s fetch with an item that has no request text
NoTextFetched == op = "repeat" /\ store_said \in { "empty_text", "no_text_field" }

\* C5: when the store's record for the item has no request text, the field
\* missing or empty, repeat() fails with the error "No request text for item
\* <id>", transmits nothing through the forwarding endpoint and returns no result.
C5_NoRequestTextFails ==
    NoTextFetched =>
        /\ pc \in { "safe", "done" }
        /\ outcome.kind = "raise"
        /\ outcome.type = "RuntimeError"
        /\ outcome.msg.text = "No request text for item"
        /\ outcome.msg.id \in ItemIds
        /\ nSend = 0 /\ outbound = Nothing /\ proxy_said = "nothing"

\* repeat() failed on an item whose request text is empty
C5_EmptyTextFailed ==
    /\ op = "repeat" /\ store_said = "empty_text"
    /\ outcome.kind = "raise" /\ nSend = 0

\* the entries of a header dict with exactly this name
HeadersKeyed(headers, name) == SelectSeq(headers, LAMBDA kv : kv[1] = name)

\* the value names the item: "repeat:" and the decimal digits of item_id
TagsItem(value, item_id) ==
    /\ Len(value) > Len(TAG_REPEAT)
    /\ SubSeq(value, 1, Len(TAG_REPEAT)) = TAG_REPEAT
    /\ \A i \in (Len(TAG_REPEAT) + 1)..Len(value) : value[i] \in DigitChars
    /\ DecimalValue(SubSeq(value, Len(TAG_REPEAT) + 1, Len(value))) = item_id

\* C9: every request handed to the forwarding endpoint carries one header
\* X-Burp-MCP.  From request() its value is the caller's when the caller gave
\* one and "request" otherwise; from repeat() it is "repeat:<item_id>",
\* whatever value the captured text or the overrides give that header.
C9_ProvenanceHeader ==
    pc = "proxy" =>
        LET tags == HeadersKeyed(outbound.headers, X_BURP_MCP)
        IN  /\ Len(tags) = 1
            /\ IF op = "repeat"
               THEN TagsItem(tags[1][2], args.item_id)
               ELSE LET given == HeadersKeyed(args.headers, X_BURP_MCP)
                    IN  tags[1][2] = IF given # <<>> THEN given[1][2] ELSE TAG_REQUEST

\* repeat() has sent a request whose captured text and whose overrides both
\* carry a provenance value of their own
C9_RepeatOverProvenance ==
    /\ Repeating
    /\ HeadersKeyed(parsed.headers, X_BURP_MCP) # <<>>
    /\ HeadersKeyed(args.add_headers, X_BURP_MCP) # <<>>

(***************************************************************************)
(* Properties of the tools of burp_mcp.py and of the calls as a whole.     *)
(***************************************************************************)
\* a failure of the taxonomy happened in this call: the store unreachable or
\* answering non-2xx, an item with no request text, an invalid input, the
\* forwarding endpoint unreachable
TaxonomyFailure ==
    \/ store_said \in { "refused", "http_error", "empty_text", "no_text_field" }
    \/ proxy_said = "refused"
    \/ (outcome.kind = "raise" /\ outcome.type = "ValueError")

\* C6: every tool, on any failure of the taxonomy, returns a structured
\* result that carries an "error" field and never raises to its caller.
C6_ToolsReturnError ==
    (via = "mcp" /\ pc = "done" /\ TaxonomyFailure) =>
        /\ tool_outcome.kind = "return"
        /\ "error" \in DOMAIN tool_outcome.value

\* a tool has ended after the forwarding endpoint could not be reached
C6_ToolAfterProxyFailure ==
    via = "mcp" /\ pc = "done" /\ proxy_said = "refused"

\* C7: every operation that is called eventually completes, with a result or
\* with a failure, whatever the peers do: no call waits forever.
C7_EveryCallCompletes == (pc # "idle") ~> (pc = "done")

\* the host part of the URL repeat() sends to: between "://" and the path
UrlHost(url, path) ==
    LET from == str_find(url, SCHEME_SEP) + Len(SCHEME_SEP)
    IN  SubSeq(url, from, Len(url) - Len(path))

\* the Host values of the mutated header set: the override's when an override
\* names Host, the parsed request's otherwise
MutatedHostValues ==
    LET over == HeadersNamed(args.add_headers, HOST)
        own  == HeadersNamed(parsed.headers, HOST)
    IN  IF over # <<>> THEN { over[i][2] : i \in 1..Len(over) }
        ELSE { own[i][2] : i \in 1..Len(own) }

\* C8: in repeat(), the outbound host is the value of the Host header of the
\* mutated header set, the headers after substitutions and overrides, whenever
\* it has one, and that header is not among the headers passed on; the item's
\* recorded host is used only when there is no such header.
C8_HostFromMutatedHeaders ==
    Repeating =>
        /\ HeadersNamed(outbound.headers, HOST) = <<>>
        /\ IF MutatedHostValues # {}
           THEN UrlHost(outbound.url, parsed.path) \in MutatedHostValues
           ELSE UrlHost(outbound.url, parsed.path) = ItemGet(item.host, <<>>)

\* repeat() has sent a request whose overrides name Host
C8_HostOverridden == Repeating /\ HeadersNamed(args.add_headers, HOST) # <<>>

\* the text repeat() parses, and its first line
ParsedText == ApplyReplacements(item.request_text, args.replacements)

FirstLine(text) ==
    LET ends == { i \in 1..Len(text) : text[i] \in { LF, CR } }
    IN  IF ends = {} THEN text
        ELSE SubSeq(text, 1, (CHOOSE i \in ends : \A j \in ends : i <= j) - 1)

\* the request line names no method: it is empty or blank
MethodAbsent(text) == \A i \in 1..Len(FirstLine(text)) : FirstLine(text)[i] \in Whitespace

\* C10: parse fails on no text; for a request line with no method it yields
\* the method GET, for one with no path the path "/", and the path of every
\* parsed request starts with "/".
C10_ParseDefaults ==
    Repeating =>
        /\ parsed.path # <<>> /\ parsed.path[1] = "/"
        /\ MethodAbsent(ParsedText) => parsed.method = GET

\* repeat() has parsed a text whose first line is blank
C10_BlankRequestLine == Repeating /\ MethodAbsent(ParsedText)

(***************************************************************************)
(* Properties of parsing and rebuilding.                                   *)
(***************************************************************************)
\* a well-formed request: "METHOD /path VERSION" with an upper-case method,
\* header lines that each have a value, and one Host header among them
WellFormed(s) ==
    /\ Len(s.line) = 3
    /\ s.line[1] # <<>> /\ s.line[1] = str_upper(s.line[1])
    /\ s.line[2] # <<>> /\ s.line[2][1] = "/"
    /\ \A i \in 1..Len(s.hdrs) : s.hdrs[i].value # <<>>
    /\ Cardinality({ i \in 1..Len(s.hdrs) : str_lower(s.hdrs[i].name) = HOST }) = 1

\* headers the transport and the tool set by themselves
ManagedHeaders == { CONTENT_LENGTH, TRANSFER_ENCODING, str_lower(X_BURP_MCP) }

\* a header set: the (name, value) pairs, names compared case-insensitively,
\* the managed headers aside
HeaderSet(pairs) ==
    { <<str_lower(pairs[i][1]), pairs[i][2]>> : i \in 1..Len(pairs) }
        \ { <<n, pairs[i][2]>> : n \in ManagedHeaders, i \in 1..Len(pairs) }

\* the header set of the request repeat() rebuilds: the headers it passes on
\* and the Host it puts into the URL
RebuiltHeaderSet ==
    HeaderSet(outbound.headers) \cup { <<HOST, UrlHost(outbound.url, parsed.path)>> }

\* repeat() was called with an empty mutation spec
NoMutation == args.replacements = <<>> /\ args.add_headers = <<>> /\ args.body = None

\* C11: for a well-formed request text, parsing it and rebuilding the request
\* from the parsed structure gives the same method, the same path, the same
\* header set and the same body, whitespace aside.
C11_RoundTrip ==
    (Repeating /\ NoMutation) =>
        \A s \in ShapesOf[item.request_text] :
            WellFormed(s) =>
                /\ outbound.method = s.line[1]
                /\ parsed.path = s.line[2]
                /\ RebuiltHeaderSet
                     = HeaderSet([i \in 1..Len(s.hdrs) |-> <<s.hdrs[i].name, s.hdrs[i].value>>])
                /\ str_strip(BodySent(outbound.data)) = str_strip(s.body)

\* repeat() has rebuilt, unchanged, a well-formed request that repeats a header
C11_RepeatedHeaderRebuilt ==
    /\ Repeating /\ NoMutation
    /\ \E s \in ShapesOf[item.request_text] : WellFormed(s) /\ s.hdrs = RepeatedBlock

(***************************************************************************)
(* Properties of the calls repeat() makes.                                 *)
(***************************************************************************)
\* a call of repeat() failed at the store or at the forwarding endpoint
RepeatCallFailed ==
    \/ store_said \in { "http_error", "refused", "silent" }
    \/ proxy_said = "refused"

\* C12: one call of repeat() makes exactly one fetch to the store and then at
\* most one transmission through the forwarding endpoint; no transmission is
\* made before the fetch has answered; a failure of either ends the call with
\* an error, with no second attempt and no result.
C12_NoRetry ==
    op = "repeat" =>
        /\ nFetch = 1
        /\ nSend \in { 0, 1 }
        /\ nSend = 1 => store_said = "text"
        /\ store_said = "nothing" => pc = "store"
        /\ RepeatCallFailed =>
              /\ pc \in { "safe", "done" }
              /\ outcome.kind = "raise"
              /\ outbound = Nothing /\ store_req = Nothing

\* a call of repeat() has failed at the forwarding endpoint, after its fetch
C12_TransmissionFailed ==
    /\ op = "repeat" /\ proxy_said = "refused" /\ store_said = "text"
    /\ nFetch = 1 /\ nSend = 1 /\ outcome.kind = "raise"

(***************************************************************************)
(* Properties of send_to_repeater().                                       *)
(***************************************************************************)
\* the values a posted body holds under key k, and its keys
FieldValues(body, k) == { body[i][2] : i \in { j \in 1..Len(body) : body[j][1] = k } }
FieldKeys(body) == { body[i][1] : i \in 1..Len(body) }

\* the caller gave an item identifier, a raw payload, a tab label
GivesId(a) == a.history_id.t # "none"
GivesPayload(a) == a.request_b64 # None /\ a.request_b64 # <<>>
GivesTab(a) == a.tab_name # None /\ a.tab_name # <<>>

\* the body posted is the one the arguments ask for
PostedAsAsked(a, req) ==
    /\ req.verb = "POST" /\ req.path = PATH_REPEATER
    /\ Len(req.body) = Cardinality(FieldKeys(req.body))
    /\ IF GivesId(a)
       THEN /\ FieldKeys(req.body) \ { "tab_name" } = { "history_id" }
            /\ FieldValues(req.body, "history_id") = { [t |-> "int", v |-> a.history_id.v] }
       ELSE /\ FieldKeys(req.body) \ { "tab_name" } = { "request", "host", "port", "https" }
            /\ FieldValues(req.body, "request") = { [t |-> "str", v |-> a.request_b64] }
            /\ FieldValues(req.body, "host")
                 = { [t |-> "str", v |-> IF a.host = None THEN <<>> ELSE a.host] }
            /\ FieldValues(req.body, "port") = { [t |-> "int", v |-> a.port] }
            /\ FieldValues(req.body, "https") = { [t |-> "bool", v |-> a.https] }
    /\ IF GivesTab(a)
       THEN FieldValues(req.body, "tab_name") = { [t |-> "str", v |-> a.tab_name] }
       ELSE "tab_name" \notin FieldKeys(req.body)

\* send_to_repeater() is called in this step
RepeaterCalled == pc = "idle" /\ op' = "send_to_repeater"

\* C13: send_to_repeater() with neither an item identifier nor a raw payload
\* fails with an invalid-input error before any POST; with an identifier it
\* posts that identifier, the tab label when given, and no raw-payload field;
\* with a payload only it posts the payload with host, port and scheme.
C13_SendToRepeater ==
    [][RepeaterCalled =>
          /\ \A a \in RepeaterCalls :
                (GivesId(a) \/ GivesPayload(a))
                    <=> ENABLED (CallSendToRepeater /\ args' = a /\ pc' = "store")
          /\ pc' = "store" =>
                /\ GivesId(args') \/ GivesPayload(args')
                /\ PostedAsAsked(args', store_req')
                /\ nFetch' = nFetch + 1
          /\ pc' # "store" =>
                /\ outcome'.kind = "raise" /\ outcome'.type = "ValueError"
                /\ nFetch' = nFetch /\ store_req' = Nothing]_vars

\* the call failed on invalid input, with no request made to the store
C13_InvalidInputFailed ==
    /\ op = "send_to_repeater"
    /\ outcome.kind = "raise" /\ outcome.type = "ValueError"
    /\ nFetch = 0

\* the identifier 0 and a payload were given, and the identifier was posted
C13_IdZeroPosted ==
    /\ op = "send_to_repeater" /\ pc = "store"
    /\ GivesId(args) /\ args.history_id.v = 0 /\ GivesPayload(args) /\ GivesTab(args)
    /\ FieldKeys(store_req.body) = { "history_id", "tab_name" }

(***************************************************************************)
(* Properties of the substitutions of repeat().                            *)
(***************************************************************************)
\* old occurs in t at position i
OccursAt(t, old, i) ==
    /\ i + Len(old) - 1 <= Len(t)
    /\ \A k \in 1..Len(old) : t[i + k - 1] = old[k]

\* the occurrences a left-to-right scan replaces: an occurrence is taken
\* unless an earlier taken occurrence covers its first character
TakenAt(t, old) ==
    LET taken[i \in 1..Len(t)] ==
            /\ OccursAt(t, old, i)
            /\ \A j \in (i - Len(old) + 1)..(i - 1) : j >= 1 => ~taken[j]
    IN  taken

RECURSIVE ConcatRange(_, _, _)
\* pieces[lo] \o ... \o pieces[hi]
ConcatRange(pieces, lo, hi) ==
    IF lo > hi THEN <<>>
    ELSE IF lo = hi THEN pieces[lo]
    ELSE LET mid == (lo + hi) \div 2
         IN  ConcatRange(pieces, lo, mid) \o ConcatRange(pieces, mid + 1, hi)

\* t with every occurrence of a non-empty old replaced by new, literally
ReplaceAll(t, old, new) ==
    LET taken == TakenAt(t, old)
        pieces == [i \in 1..Len(t) |->
                     IF taken[i] THEN new
                     ELSE IF \E j \in (i - Len(old) + 1)..(i - 1) : j >= 1 /\ taken[j]
                          THEN <<>> ELSE <<t[i]>>]
    IN  ConcatRange(pieces, 1, Len(t))

\* the text after the first n pairs, each applied to the text the one before gave
SubstitutedText(text, pairs) ==
    LET after[n \in 0..Len(pairs)] ==
            IF n = 0 THEN text
            ELSE ReplaceAll(after[n - 1], pairs[n][1], pairs[n][2])
    IN  after[Len(pairs)]

\* the pairs in the opposite order
Reversed(pairs) == [i \in 1..Len(pairs) |-> pairs[Len(pairs) + 1 - i]]

\* C14: the substitution pairs are applied to the raw text one after another
\* in listed order, each as a literal replace-all over the text the previous
\* pair produced, and all of them before parsing: what repeat() parses is the
\* text so substituted.
C14_SubstitutionsInOrder ==
    Repeating =>
        parsed = parse_http_request(SubstitutedText(item.request_text, args.replacements))

\* a later pair has matched what an earlier pair inserted, and the pairs in
\* the opposite order would have given another request
C14_OrderMatters ==
    /\ Repeating
    /\ args.replacements = << <<BOB, EVE>>, <<EVE, BOB>> >>
    /\ item.request_text = Render([line |-> <<POST, PATH_LOGIN, HTTP11>>, hdrs |-> BaseBlock,
                                   eol |-> <<LF>>, body |-> USER_BOB])
    /\ outbound.data = USER_BOB
    /\ parse_http_request(SubstitutedText(item.request_text,
                                          Reversed(args.replacements))).body
          = <<"u","s","e","r","=","e","v","e">>

(***************************************************************************)
(* Properties of the parsed body.                                          *)
(***************************************************************************)
\* t without the whitespace at its end
TrimTrailing(t) ==
    LET keep == { i \in 1..Len(t) : t[i] \notin Whitespace }
    IN  IF keep = {} THEN <<>>
        ELSE SubSeq(t, 1, CHOOSE i \in keep : \A j \in keep : j <= i)

\* C15: parse splits the text at the first blank line and trims only the
\* trailing whitespace of the body: whitespace at the start of the body block
\* is kept in the parsed body.
C15_BodyTrailingTrimOnly ==
    (Repeating /\ args.replacements = <<>>) =>
        \A s \in ShapesOf[item.request_text] :
            parsed.body = TrimTrailing(s.body)

\* repeat() has parsed a text whose body block starts with whitespace
C15_LeadingWhitespaceParsed ==
    /\ Repeating /\ args.replacements = <<>>
    /\ \E s \in ShapesOf[item.request_text] :
          s.body # <<>> /\ s.body[1] \in Whitespace /\ TrimTrailing(s.body) # <<>>

(***************************************************************************)
(* Properties of the query of history().                                   *)
(***************************************************************************)
\* the values a query holds under name k, and its names
ParamValues(query, k) == { query[i][2] : i \in { j \in 1..Len(query) : query[j][1] = k } }
ParamNames(query) == { query[i][1] : i \in 1..Len(query) }

\* the criteria that are texts
TextCriteria == { "host", "method", "status", "search", "search_in", "tool",
                  "ext_exclude", "mime", "order", "fields" }

\* the query holds the number n under name k, in decimal
SendsNumber(query, k, n) ==
    \E v \in ParamValues(query, k) :
        /\ ParamValues(query, k) = { v }
        /\ v # <<>> /\ \A i \in 1..Len(v) : v[i] \in DigitChars
        /\ DecimalValue(v) = n

\* history() has asked the store
HistoryAsked == pc = "store" /\ op = "history"

\* C16: the query of history() holds a parameter for exactly the criteria the
\* caller gave: none for a criterion that is absent or an empty text, the
\* body truncation only when greater than zero, the agent-only flag only when
\* set, no "fields" for an omitted field list, every given criterion under its
\* own name with its value, and limit and offset always, offset 0 included.
C16_HistoryQuery ==
    HistoryAsked =>
        LET q == store_req.query
        IN  /\ store_req.verb = "GET" /\ store_req.path = PATH_HISTORY
            /\ Len(q) = Cardinality(ParamNames(q))
            /\ ParamNames(q) \subseteq TextCriteria \cup { "limit", "offset", "max_body", "mcp" }
            /\ \A c \in TextCriteria :
                  IF args[c] = None \/ args[c] = <<>>
                  THEN c \notin ParamNames(q)
                  ELSE ParamValues(q, c) = { args[c] }
            /\ SendsNumber(q, "limit", args.limit)
            /\ SendsNumber(q, "offset", args.offset)
            /\ IF args.max_body > 0
               THEN SendsNumber(q, "max_body", args.max_body)
               ELSE "max_body" \notin ParamNames(q)
            /\ IF args.mcp_only
               THEN ParamValues(q, "mcp") = { <<"t","r","u","e">> }
               ELSE "mcp" \notin ParamNames(q)

\* history() has asked with an empty host, offset 0, no truncation and no flag
C16_DefaultsAsked ==
    /\ HistoryAsked
    /\ args.host = <<>> /\ args.offset = 0 /\ args.max_body = 0 /\ ~args.mcp_only
    /\ args.fields = None /\ args.status # None
    /\ ParamNames(store_req.query) = { "status", "limit", "offset" }
=============================================================================
